---- MODULE Spec2Model ----
(***************************************************************************)
(* Inline ("unified") diff display: src/display/inline.rs, fn print.       *)
(*                                                                         *)
(* For every hunk, print resolves the first right line and the last left   *)
(* line from the context windows, reduces each side to one (first, last)   *)
(* interval, computes one line-number column width, and prints the left    *)
(* block, the right block and a blank line.                                *)
(***************************************************************************)
EXTENDS Integers, Sequences, FiniteSets, TLC

(***************************************************************************)
(* Bounds of the model.                                                    *)
(***************************************************************************)
\* Line numbers of the oracle-driven runs are MinLine..MaxLine; the range
\* straddles the step from one-digit to two-digit formatted line numbers.
MinLine == 8
MaxLine == 10
\* Longest context window and longest hunk of a run that follows the data model.
MaxCtxLen == 2
MaxHunkLen == 2
\* Most pairs (windows and hunk together) of a run outside the data model.
MaxMalformedLen == 2
\* Lines per side, and largest num_context_lines, of the runs whose context
\* windows are computed from the sources.
SrcLen == 5
MaxContext == 2

(***************************************************************************)
(* Option<T>: None is the empty sequence, Some(x) the one-element sequence. *)
(* A correspondence pair is <<lhs, rhs>> of two Option<LineNumber>.         *)
(***************************************************************************)
None == <<>>
Some(x) == <<x>>

LineNumbers == MinLine..MaxLine
OptLine == {None} \cup {Some(n) : n \in LineNumbers}
Pairs == {<<l, r>> : l \in OptLine, r \in OptLine} \ {<<None, None>>}

SeqsUpTo(S, n) == UNION {[1..k -> S] : k \in 0..n}

(***************************************************************************)
(* Iterator helpers of inline.rs.                                          *)
(***************************************************************************)
RECURSIVE to_lhs_iter(_)
to_lhs_iter(items) ==
    IF items = <<>> THEN <<>>
    ELSE Head(items)[1] \o to_lhs_iter(Tail(items))

RECURSIVE to_rhs_iter(_)
to_rhs_iter(items) ==
    IF items = <<>> THEN <<>>
    ELSE Head(items)[2] \o to_rhs_iter(Tail(items))

\* first = iter.next()?; last = iter.next_back().unwrap_or(first)
get_first_last(iter) ==
    IF iter = <<>> THEN None
    ELSE LET first == Head(iter)
             rest  == Tail(iter)
             last  == IF rest = <<>> THEN first ELSE rest[Len(rest)]
         IN  Some(<<first, last>>)

\* (a..=b) of Rust: the values a, a+1, ..., b, empty when a > b.
RangeInclusive(a, b) == [k \in 1..(IF a <= b THEN b - a + 1 ELSE 0) |-> a + k - 1]

\* Iterator::nth(n) and DoubleEndedIterator::nth_back(n), zero-based.
Nth(iter, n) == IF n + 1 <= Len(iter) THEN Some(iter[n + 1]) ELSE None
NthBack(iter, n) == IF n + 1 <= Len(iter) THEN Some(iter[Len(iter) - n]) ELSE None

\* |(lhs_line, rhs_line)| lhs_line.is_some() && rhs_line.is_some()
IsCommon(p) == p[1] # None /\ p[2] # None

\* .iter().take_while(common).count()
RECURSIVE TakeWhileCommonCount(_)
TakeWhileCommonCount(items) ==
    IF items = <<>> \/ ~IsCommon(Head(items)) THEN 0
    ELSE 1 + TakeWhileCommonCount(Tail(items))

\* .iter().rev().take_while(common).count()
RECURSIVE RevTakeWhileCommonCount(_)
RevTakeWhileCommonCount(items) ==
    IF items = <<>> \/ ~IsCommon(items[Len(items)]) THEN 0
    ELSE 1 + RevTakeWhileCommonCount(SubSeq(items, 1, Len(items) - 1))

(***************************************************************************)
(* Boundary resolution, lines 105-140.                                     *)
(***************************************************************************)
\* Mutation: nth(0) for nth(1), the common line itself.
NextOfCommon_nth0(a, b) == Nth(RangeInclusive(a, b), 0)

\* "next of common": (a..=b).map(LineNumber).nth(1)
NextOfCommon(a, b) == Nth(RangeInclusive(a, b), 1)

\* "prev of common": (a..=b).map(LineNumber).nth_back(1)
PrevOfCommon(a, b) == NthBack(RangeInclusive(a, b), 1)

\* Mutation: the window is not split into common and uncommon pairs; the
\* right value of its first pair is taken.
FirstRhsLine_noSplit(before, hunk_lines) ==
    IF before # <<>> THEN before[1][2] ELSE None

FirstRhsLine(before, hunk_lines) ==
    LET common_len     == TakeWhileCommonCount(before)
        common_lines   == SubSeq(before, 1, common_len)
        uncommon_lines == SubSeq(before, common_len + 1, Len(before))
        rhs_hunk       == to_rhs_iter(hunk_lines)
    IN  IF uncommon_lines # <<>> THEN uncommon_lines[1][2]
        ELSE IF common_lines # <<>>
             THEN IF rhs_hunk # <<>>
                  THEN NextOfCommon(common_lines[Len(common_lines)][2][1], rhs_hunk[1])
                  ELSE None
             ELSE None

LastLhsLine(after, hunk_lines) ==
    LET common_len     == RevTakeWhileCommonCount(after)
        uncommon_lines == SubSeq(after, 1, Len(after) - common_len)
        common_lines   == SubSeq(after, Len(after) - common_len + 1, Len(after))
        lhs_hunk       == to_lhs_iter(hunk_lines)
    IN  IF uncommon_lines # <<>> THEN uncommon_lines[Len(uncommon_lines)][1]
        ELSE IF common_lines # <<>>
             THEN IF lhs_hunk # <<>>
                  THEN PrevOfCommon(lhs_hunk[Len(lhs_hunk)], common_lines[1][1][1])
                  ELSE None
             ELSE None

(***************************************************************************)
(* Range assembly, lines 142-153.                                          *)
(***************************************************************************)
AllLhsLines(before, hunk_lines, last_lhs) ==
    to_lhs_iter(before) \o to_lhs_iter(hunk_lines) \o last_lhs

\* Mutation: the hunk is projected to its left side in the right chain.
AllRhsLines_lhsOfHunk(first_rhs, hunk_lines, after) ==
    first_rhs \o to_lhs_iter(hunk_lines) \o to_rhs_iter(after)

AllRhsLines(first_rhs, hunk_lines, after) ==
    first_rhs \o to_rhs_iter(hunk_lines) \o to_rhs_iter(after)

(***************************************************************************)
(* Line-number formatting (crate::lines): the displayed number is          *)
(* one-based, written in decimal; the padded form is right-aligned.        *)
(***************************************************************************)
DigitChar(d) == <<"0", "1", "2", "3", "4", "5", "6", "7", "8", "9">>[d + 1]

RECURSIVE Decimal(_)
Decimal(n) ==
    IF n < 10 THEN <<DigitChar(n)>>
    ELSE Append(Decimal(n \div 10), DigitChar(n % 10))

format_line_num(n) == Decimal(n + 1)

format_line_num_padded(n, width) ==
    LET s == format_line_num(n)
    IN  [k \in 1..(IF width > Len(s) THEN width - Len(s) ELSE 0) |-> " "] \o s

(***************************************************************************)
(* Column width, lines 155-162.                                            *)
(***************************************************************************)
MaxOf(S) == CHOOSE m \in S : \A x \in S : x <= m

\* Mutation: the last value of the first interval present, not the larger.
MaxLineOf_firstPresent(first_last_lhs, first_last_rhs) ==
    IF first_last_lhs # None THEN first_last_lhs[1][2]
    ELSE IF first_last_rhs # None THEN first_last_rhs[1][2]
    ELSE 0

\* [lhs, rhs].into_iter().flatten().map(|(_, last)| last).max().unwrap_or(LineNumber(0))
MaxLineOf(first_last_lhs, first_last_rhs) ==
    LET lasts == {fl[1][2] : fl \in {first_last_lhs, first_last_rhs} \ {None}}
    IN  IF lasts = {} THEN 0 ELSE MaxOf(lasts)

LineColumnWidth(first_last_lhs, first_last_rhs) ==
    Len(format_line_num(MaxLineOf(first_last_lhs, first_last_rhs)))

(***************************************************************************)
(* The unified printer's cursor and range walk, lines 164-196.             *)
(***************************************************************************)
\* hunk_lines.next_if_eq(&line).is_some(): the peeked value equals the line.
NextIfEq(values, idx, line) == idx <= Len(values) /\ values[idx] = line

\* Mutation: the peeked value is never consumed.
AdvanceCursor_stuck(idx, is_novel) == idx

\* next_if_eq consumes the peeked value only when it matched.
AdvanceCursor(idx, is_novel) == IF is_novel THEN idx + 1 ELSE idx

\* Mutations of the range walk: the body runs once before the test; the
\* range runs one past its end; the counter steps by two.
RangeHasNext_atLeastOnce(line, first, last) == line <= last \/ line = first
RangeHasNext_pastLast(line, first, last) == line <= last + 1
RangeStep_two(line) == line + 2

\* for line in (first.0..=last.0): the loop body runs while the counter is
\* within the inclusive range, and the counter steps by one.
RangeHasNext(line, first, last) == line <= last
RangeStep(line) == line + 1

(***************************************************************************)
(* The data model of the pair sequences (spec, section 3): on each side    *)
(* the present values are in increasing order.                             *)
(***************************************************************************)
StrictlyIncreasing(s) == \A j \in 1..(Len(s) - 1) : s[j] < s[j + 1]

FollowsDataModel(items) ==
    /\ StrictlyIncreasing(to_lhs_iter(items))
    /\ StrictlyIncreasing(to_rhs_iter(items))

(***************************************************************************)
(* Hunks and context windows handed to print.  Three kinds of run:         *)
(*   "model"     one hunk of at least one pair; the windows returned by    *)
(*               the context collaborator are any windows for which        *)
(*               before \o hunk \o after follows the data model;           *)
(*   "malformed" one hunk; hunk and windows are any short pair sequences,  *)
(*               empty ones included, in any order (an upstream invariant  *)
(*               is broken);                                               *)
(*   "adjacent"  two sources of SrcLen lines each, matched line by line,   *)
(*               a set of changed lines, one hunk per maximal run of       *)
(*               changed lines, windows computed from the cross-reference. *)
(***************************************************************************)
ModelHunks == {h \in SeqsUpTo(Pairs, MaxHunkLen) : h # <<>> /\ FollowsDataModel(h)}
ModelWindows == {w \in SeqsUpTo(Pairs, MaxCtxLen) : FollowsDataModel(w)}
MalformedSeqs == SeqsUpTo(Pairs, MaxMalformedLen)

SrcLines == 0..(SrcLen - 1)

\* The hunks of a set of changed lines: every changed line l is the pair
\* (l, l); consecutive changed lines share a hunk.
RECURSIVE HunksFrom(_, _, _, _)
HunksFrom(l, changedLines, run, acc) ==
    LET closed == IF run = <<>> THEN acc ELSE Append(acc, run)
    IN  IF l >= SrcLen THEN closed
        ELSE IF l \in changedLines
             THEN HunksFrom(l + 1, changedLines, Append(run, <<Some(l), Some(l)>>), acc)
             ELSE HunksFrom(l + 1, changedLines, <<>>, closed)

HunksOf(changedLines) == HunksFrom(0, changedLines, <<>>, <<>>)

\* opposite_positions: the line of the other side matched to a line; a
\* changed line has no match.
opposite_positions(changedLines) ==
    [l \in SrcLines |-> IF l \in changedLines THEN None ELSE Some(l)]

\* Up to num lines going down from line - 1, stopping at the start of the
\* source and at a line without match; in increasing order.
RECURSIVE LinesBefore(_, _, _)
LinesBefore(line, opposite, num) ==
    IF num = 0 \/ line = 0 \/ opposite[line - 1] = None THEN <<>>
    ELSE Append(LinesBefore(line - 1, opposite, num - 1), line - 1)

\* Up to num lines going up from line + 1, stopping at max_line and at a
\* line without match; in increasing order.
RECURSIVE LinesAfter(_, _, _, _)
LinesAfter(line, opposite, max_line, num) ==
    IF num = 0 \/ line >= max_line \/ opposite[line + 1] = None THEN <<>>
    ELSE <<line + 1>> \o LinesAfter(line + 1, opposite, max_line, num - 1)

\* Left-biased: walks the left lines before the first line of the hunk.
calculate_before_context(lines, opposite_to_lhs, opposite_to_rhs, num) ==
    IF lines = <<>> THEN <<>>
    ELSE LET p == Head(lines)
         IN  IF p[1] # None
             THEN LET ls == LinesBefore(p[1][1], opposite_to_lhs, num)
                  IN  [k \in 1..Len(ls) |-> <<Some(ls[k]), opposite_to_lhs[ls[k]]>>]
             ELSE LET rs == LinesBefore(p[2][1], opposite_to_rhs, num)
                  IN  [k \in 1..Len(rs) |-> <<opposite_to_rhs[rs[k]], Some(rs[k])>>]

\* Right-biased: walks the right lines after the last line of the hunk.
calculate_after_context(lines, opposite_to_lhs, opposite_to_rhs, max_lhs, max_rhs, num) ==
    IF lines = <<>> THEN <<>>
    ELSE LET p == lines[Len(lines)]
         IN  IF p[2] # None
             THEN LET rs == LinesAfter(p[2][1], opposite_to_rhs, max_rhs, num)
                  IN  [k \in 1..Len(rs) |-> <<opposite_to_rhs[rs[k]], Some(rs[k])>>]
             ELSE LET ls == LinesAfter(p[1][1], opposite_to_lhs, max_lhs, num)
                  IN  [k \in 1..Len(ls) |-> <<Some(ls[k]), opposite_to_lhs[ls[k]]>>]

(***************************************************************************)
(* State of print.                                                         *)
(***************************************************************************)
VARIABLES
    mode,                  \* kind of run: "model", "malformed" or "adjacent"
    changed,               \* "adjacent" runs: the changed lines of the sources
    num_context_lines,     \* display_options.num_context_lines
    hunks,                 \* the hunks argument: a sequence of pair sequences
    i,                     \* index of the hunk being rendered, from 0
    pc,                    \* position in the loop body
    before_lines,
    after_lines,
    first_rhs_line,
    last_lhs_line,
    first_last_lhs_lines,
    first_last_rhs_lines,
    line_column_width,
    line,                  \* counter of the running for loop (lhs_line / rhs_line)
    hunk_iter,             \* position of the peekable lhs_hunk_lines / rhs_hunk_lines
    out                    \* everything printed so far, one event per print call

vars == <<mode, changed, num_context_lines, hunks, i, pc, before_lines, after_lines,
          first_rhs_line, last_lhs_line, first_last_lhs_lines, first_last_rhs_lines,
          line_column_width, line, hunk_iter, out>>

inputs == <<mode, changed, num_context_lines, hunks>>
locals == <<before_lines, after_lines, first_rhs_line, last_lhs_line,
            first_last_lhs_lines, first_last_rhs_lines, line_column_width,
            line, hunk_iter>>

hunk_lines == hunks[i + 1]

\* Output events.
HeaderEvent(n) ==
    [kind |-> "header", hunk |-> n, line |-> None, novel |-> FALSE, num |-> <<>>]
LineEvent(side, n, l, is_novel, width) ==
    [kind |-> side, hunk |-> n, line |-> Some(l), novel |-> is_novel,
     num |-> format_line_num_padded(l, width)]
BlankEvent(n) ==
    [kind |-> "blank", hunk |-> n, line |-> None, novel |-> FALSE, num |-> <<>>]

StartState ==
    /\ i = 0
    /\ pc = IF hunks = <<>> THEN "done" ELSE "header"
    /\ before_lines = <<>>
    /\ after_lines = <<>>
    /\ first_rhs_line = None
    /\ last_lhs_line = None
    /\ first_last_lhs_lines = None
    /\ first_last_rhs_lines = None
    /\ line_column_width = 0
    /\ line = 0
    /\ hunk_iter = 1
    /\ out = <<>>

Init ==
    /\ mode = "model"
    /\ changed = {}
    /\ num_context_lines = MaxCtxLen
    /\ \E h \in ModelHunks : hunks = <<h>>
    /\ StartState

InitMalformed ==
    /\ mode = "malformed"
    /\ changed = {}
    /\ num_context_lines = MaxMalformedLen
    /\ \E h \in MalformedSeqs : hunks = <<h>>
    /\ StartState

InitAdjacent ==
    /\ mode = "adjacent"
    /\ changed \in SUBSET SrcLines
    /\ num_context_lines \in 0..MaxContext
    /\ hunks = HunksOf(changed)
    /\ StartState

(***************************************************************************)
(* The windows the two context calls can return, lines 86-100.             *)
(***************************************************************************)
BeforeWindows ==
    CASE mode = "model" ->
           {w \in ModelWindows : FollowsDataModel(w \o hunk_lines)}
      [] mode = "malformed" ->
           {w \in MalformedSeqs : Len(w) + Len(hunk_lines) <= MaxMalformedLen}
      [] OTHER ->
           {calculate_before_context(hunk_lines, opposite_positions(changed),
                                     opposite_positions(changed), num_context_lines)}

AfterWindows ==
    CASE mode = "model" ->
           {w \in ModelWindows : FollowsDataModel(before_lines \o hunk_lines \o w)}
      [] mode = "malformed" ->
           {w \in MalformedSeqs :
               Len(before_lines) + Len(hunk_lines) + Len(w) <= MaxMalformedLen}
      [] OTHER ->
           {calculate_after_context(before_lines \o hunk_lines,
                                    opposite_positions(changed), opposite_positions(changed),
                                    SrcLen - 1, SrcLen - 1, num_context_lines)}

(***************************************************************************)
(* The loop body of print, lines 71-199.                                   *)
(***************************************************************************)
\* println!(header), lines 72-82.
Header ==
    /\ pc = "header"
    /\ out' = Append(out, HeaderEvent(i + 1))
    /\ pc' = "before"
    /\ UNCHANGED <<inputs, i, locals>>

\* let before_lines = calculate_before_context(..), lines 86-91.
CalcBefore ==
    /\ pc = "before"
    /\ before_lines' \in BeforeWindows
    /\ pc' = "after"
    /\ UNCHANGED <<inputs, i, after_lines, first_rhs_line, last_lhs_line,
                   first_last_lhs_lines, first_last_rhs_lines, line_column_width,
                   line, hunk_iter, out>>

\* let after_lines = calculate_after_context(..), lines 92-100.
CalcAfter ==
    /\ pc = "after"
    /\ after_lines' \in AfterWindows
    /\ pc' = "resolve"
    /\ UNCHANGED <<inputs, i, before_lines, first_rhs_line, last_lhs_line,
                   first_last_lhs_lines, first_last_rhs_lines, line_column_width,
                   line, hunk_iter, out>>

\* The range counter at the entry of a block: the first value of the range.
RangeStart(first_last) == IF first_last = None THEN 0 ELSE first_last[1][1]

\* Lines 105-162: boundaries, intervals, column width; then the left block
\* is entered with a fresh cursor.
Resolve ==
    /\ pc = "resolve"
    /\ first_rhs_line' = FirstRhsLine(before_lines, hunk_lines)
    /\ last_lhs_line' = LastLhsLine(after_lines, hunk_lines)
    /\ first_last_lhs_lines' =
           get_first_last(AllLhsLines(before_lines, hunk_lines, last_lhs_line'))
    /\ first_last_rhs_lines' =
           get_first_last(AllRhsLines(first_rhs_line', hunk_lines, after_lines))
    /\ line_column_width' = LineColumnWidth(first_last_lhs_lines', first_last_rhs_lines')
    /\ line' = RangeStart(first_last_lhs_lines')
    /\ hunk_iter' = 1
    /\ pc' = "lhs"
    /\ UNCHANGED <<inputs, i, before_lines, after_lines, out>>

\* One iteration of the left loop, lines 166-178.
LhsLine ==
    /\ pc = "lhs"
    /\ first_last_lhs_lines # None
    /\ RangeHasNext(line, first_last_lhs_lines[1][1], first_last_lhs_lines[1][2])
    /\ LET is_novel == NextIfEq(to_lhs_iter(hunk_lines), hunk_iter, line)
       IN  /\ hunk_iter' = AdvanceCursor(hunk_iter, is_novel)
           /\ out' = Append(out, LineEvent("lhs", i + 1, line, is_novel, line_column_width))
    /\ line' = RangeStep(line)
    /\ UNCHANGED <<inputs, i, pc, before_lines, after_lines, first_rhs_line,
                   last_lhs_line, first_last_lhs_lines, first_last_rhs_lines,
                   line_column_width>>

\* Mutation: the blank line is printed between the two blocks.
LhsEnd_blank ==
    /\ pc = "lhs"
    /\ \/ first_last_lhs_lines = None
       \/ /\ first_last_lhs_lines # None
          /\ ~RangeHasNext(line, first_last_lhs_lines[1][1], first_last_lhs_lines[1][2])
    /\ out' = Append(out, BlankEvent(i + 1))
    /\ line' = RangeStart(first_last_rhs_lines)
    /\ hunk_iter' = 1
    /\ pc' = "rhs"
    /\ UNCHANGED <<inputs, i, before_lines, after_lines, first_rhs_line,
                   last_lhs_line, first_last_lhs_lines, first_last_rhs_lines,
                   line_column_width>>

\* The left block is skipped (line 164) or its range is exhausted; the right
\* block is entered with a fresh cursor (line 182).
LhsEnd ==
    /\ pc = "lhs"
    /\ \/ first_last_lhs_lines = None
       \/ /\ first_last_lhs_lines # None
          /\ ~RangeHasNext(line, first_last_lhs_lines[1][1], first_last_lhs_lines[1][2])
    /\ line' = RangeStart(first_last_rhs_lines)
    /\ hunk_iter' = 1
    /\ pc' = "rhs"
    /\ UNCHANGED <<inputs, i, before_lines, after_lines, first_rhs_line,
                   last_lhs_line, first_last_lhs_lines, first_last_rhs_lines,
                   line_column_width, out>>

\* One iteration of the right loop, lines 183-195.
RhsLine ==
    /\ pc = "rhs"
    /\ first_last_rhs_lines # None
    /\ RangeHasNext(line, first_last_rhs_lines[1][1], first_last_rhs_lines[1][2])
    /\ LET is_novel == NextIfEq(to_rhs_iter(hunk_lines), hunk_iter, line)
       IN  /\ hunk_iter' = AdvanceCursor(hunk_iter, is_novel)
           /\ out' = Append(out, LineEvent("rhs", i + 1, line, is_novel, line_column_width))
    /\ line' = RangeStep(line)
    /\ UNCHANGED <<inputs, i, pc, before_lines, after_lines, first_rhs_line,
                   last_lhs_line, first_last_lhs_lines, first_last_rhs_lines,
                   line_column_width>>

\* The right block is skipped (line 181) or its range is exhausted.
RhsEnd ==
    /\ pc = "rhs"
    /\ \/ first_last_rhs_lines = None
       \/ /\ first_last_rhs_lines # None
          /\ ~RangeHasNext(line, first_last_rhs_lines[1][1], first_last_rhs_lines[1][2])
    /\ pc' = "blank"
    /\ UNCHANGED <<inputs, i, locals, out>>

\* println!() of line 198; the locals of the loop body go out of scope and
\* the loop moves to the next hunk or ends.
Blank ==
    /\ pc = "blank"
    /\ out' = Append(out, BlankEvent(i + 1))
    /\ i' = i + 1
    /\ pc' = IF i + 1 < Len(hunks) THEN "header" ELSE "done"
    /\ before_lines' = <<>>
    /\ after_lines' = <<>>
    /\ first_rhs_line' = None
    /\ last_lhs_line' = None
    /\ first_last_lhs_lines' = None
    /\ first_last_rhs_lines' = None
    /\ line_column_width' = 0
    /\ line' = 0
    /\ hunk_iter' = 1
    /\ UNCHANGED inputs

Next ==
    \/ Header
    \/ CalcBefore
    \/ CalcAfter
    \/ Resolve
    \/ LhsLine
    \/ LhsEnd
    \/ RhsLine
    \/ RhsEnd
    \/ Blank

\* Runs whose hunk and windows follow the data model.
Spec == Init /\ [][Next]_vars

\* Runs whose hunk and windows are arbitrary short pair sequences.
SpecMalformed == InitMalformed /\ [][Next]_vars

\* Runs over several hunks, the windows computed from the sources.
SpecAdjacent == InitAdjacent /\ [][Next]_vars

(***************************************************************************)
(* Vocabulary of the properties.                                           *)
(***************************************************************************)
Range(s) == {s[k] : k \in DOMAIN s}

\* The events printed for one side of hunk n, and their line numbers, in order.
BlockEvents(side, n) == SelectSeq(out, LAMBDA e : e.kind = side /\ e.hunk = n)
BlockLines(side, n) ==
    LET es == BlockEvents(side, n) IN [k \in DOMAIN es |-> es[k].line[1]]

\* The hunk being rendered has both blocks printed and its locals alive.
HunkPrinted == pc = "blank"
Resolved == pc \in {"lhs", "rhs", "blank"}

LhsBlock == BlockLines("lhs", i + 1)
RhsBlock == BlockLines("rhs", i + 1)
LhsNovel == {e.line[1] : e \in {x \in Range(BlockEvents("lhs", i + 1)) : x.novel}}
RhsNovel == {e.line[1] : e \in {x \in Range(BlockEvents("rhs", i + 1)) : x.novel}}
LhsContext == {e.line[1] : e \in {x \in Range(BlockEvents("lhs", i + 1)) : ~x.novel}}
RhsContext == {e.line[1] : e \in {x \in Range(BlockEvents("rhs", i + 1)) : ~x.novel}}

MinOf(S) == CHOOSE m \in S : \A x \in S : m <= x

(***************************************************************************)
(* C1.  For a hunk and windows that follow the data model, the lines       *)
(* printed as novel in the left block are exactly the left-present values  *)
(* of the hunk's own pairs, every other printed left line is context, and  *)
(* no line is both; the same for the right block and the right-present     *)
(* values.                                                                 *)
(***************************************************************************)
C1_NovelExactlyHunkValues ==
    HunkPrinted =>
        /\ LhsNovel = Range(to_lhs_iter(hunk_lines))
        /\ RhsNovel = Range(to_rhs_iter(hunk_lines))
        /\ LhsContext = Range(LhsBlock) \ Range(to_lhs_iter(hunk_lines))
        /\ RhsContext = Range(RhsBlock) \ Range(to_rhs_iter(hunk_lines))

\* Two hunk values on the left with a context line between them, and context
\* printed after the cursor is exhausted on the right.
C1_Witness ==
    /\ HunkPrinted
    /\ to_lhs_iter(hunk_lines) = <<MinLine, MinLine + 2>>
    /\ LhsNovel = {MinLine, MinLine + 2}
    /\ MinLine + 1 \in LhsContext
    /\ \E n \in RhsNovel : \E c \in RhsContext : c > n

(***************************************************************************)
(* C2.  As stated:  for a pure deletion hunk the right block is empty, for *)
(* a pure insertion hunk the left block is empty, whatever the windows.    *)
(***************************************************************************)
PureDeletion == hunk_lines # <<>> /\ to_rhs_iter(hunk_lines) = <<>>
PureInsertion == hunk_lines # <<>> /\ to_lhs_iter(hunk_lines) = <<>>

C2_Original ==
    HunkPrinted =>
        /\ PureDeletion => RhsBlock = <<>>
        /\ PureInsertion => LhsBlock = <<>>

(***************************************************************************)
(* C2, amended.  For a pure deletion hunk the right block has no novel     *)
(* line: it holds only context lines lying within the right-present        *)
(* values of the two windows, and is empty when the windows have no        *)
(* right-present value.  For a pure insertion hunk the same holds of the   *)
(* left block and the left-present values of the windows.  The side that   *)
(* has the hunk values prints all of them as novel, and prints as context  *)
(* the window lines of its own end (left lines of the before-context,      *)
(* right lines of the after-context).                                      *)
(***************************************************************************)
WindowRhs == Range(to_rhs_iter(before_lines)) \cup Range(to_rhs_iter(after_lines))
WindowLhs == Range(to_lhs_iter(before_lines)) \cup Range(to_lhs_iter(after_lines))

C2_OneSidedHunk ==
    HunkPrinted =>
        /\ PureDeletion =>
              /\ RhsNovel = {}
              /\ WindowRhs = {} => RhsBlock = <<>>
              /\ \A l \in Range(RhsBlock) : MinOf(WindowRhs) <= l /\ l <= MaxOf(WindowRhs)
              /\ LhsNovel = Range(to_lhs_iter(hunk_lines))
              /\ Range(to_lhs_iter(before_lines)) \subseteq LhsContext
        /\ PureInsertion =>
              /\ LhsNovel = {}
              /\ WindowLhs = {} => LhsBlock = <<>>
              /\ \A l \in Range(LhsBlock) : MinOf(WindowLhs) <= l /\ l <= MaxOf(WindowLhs)
              /\ RhsNovel = Range(to_rhs_iter(hunk_lines))
              /\ Range(to_rhs_iter(after_lines)) \subseteq RhsContext

\* A pure deletion between common context lines: the right block is not
\* empty, it shows the after-context as context.
C2_Witness ==
    /\ HunkPrinted
    /\ PureDeletion
    /\ before_lines # <<>> /\ \A k \in DOMAIN before_lines : IsCommon(before_lines[k])
    /\ after_lines # <<>> /\ \A k \in DOMAIN after_lines : IsCommon(after_lines[k])
    /\ RhsBlock # <<>>
    /\ LhsNovel # {}
    /\ LhsContext # {}

(***************************************************************************)
(* C4.  The line numbers printed in the left block of a hunk run from the  *)
(* interval's first value upwards in steps of one, and end at its last     *)
(* value once the block is complete; the same for the right block.  So no  *)
(* line number is printed twice on one side for one hunk.                  *)
(***************************************************************************)
Contiguous(block, first_last, complete) ==
    /\ \A k \in DOMAIN block : block[k] = first_last[1][1] + (k - 1)
    /\ \A j, k \in DOMAIN block : j # k => block[j] # block[k]
    /\ (complete /\ block # <<>>) => block[Len(block)] = first_last[1][2]

C4_BlocksContiguous ==
    Resolved =>
        /\ first_last_lhs_lines = None => LhsBlock = <<>>
        /\ first_last_rhs_lines = None => RhsBlock = <<>>
        /\ first_last_lhs_lines # None =>
              Contiguous(LhsBlock, first_last_lhs_lines, pc \in {"rhs", "blank"})
        /\ first_last_rhs_lines # None =>
              Contiguous(RhsBlock, first_last_rhs_lines, pc = "blank")
        /\ (pc = "blank" /\ first_last_lhs_lines # None) => LhsBlock # <<>>
        /\ (pc = "blank" /\ first_last_rhs_lines # None) => RhsBlock # <<>>

C4_Witness ==
    /\ HunkPrinted
    /\ LhsBlock = <<MinLine, MinLine + 1, MinLine + 2>>
    /\ Len(RhsBlock) = 2

(***************************************************************************)
(* C5.  As stated:  a hunk for which a malformed interval (first > last)   *)
(* was computed is not rendered through to its end; rendering fails        *)
(* instead of printing an empty block and going on.                        *)
(***************************************************************************)
Malformed(first_last) == first_last # None /\ first_last[1][1] > first_last[1][2]

C5_Original ==
    ~(HunkPrinted /\ (Malformed(first_last_lhs_lines) \/ Malformed(first_last_rhs_lines)))

(***************************************************************************)
(* C5, amended.  When the interval computed for a side of a hunk is        *)
(* malformed (first > last), no failure is raised: the block of that side  *)
(* is printed empty, and rendering goes on with the rest of the hunk (the  *)
(* other block, the blank line) and with the following hunks.              *)
(***************************************************************************)
C5_MalformedPrintsEmpty ==
    /\ (pc \in {"rhs", "blank"} /\ Malformed(first_last_lhs_lines)) => LhsBlock = <<>>
    /\ (pc = "blank" /\ Malformed(first_last_rhs_lines)) => RhsBlock = <<>>
    /\ (pc = "lhs" /\ Malformed(first_last_lhs_lines)) => ENABLED LhsEnd
    /\ (pc = "rhs" /\ Malformed(first_last_rhs_lines)) => ENABLED RhsEnd
    /\ pc = "blank" => ENABLED Blank

\* A malformed left interval next to a well-formed, printed right block.
C5_Witness ==
    /\ HunkPrinted
    /\ Malformed(first_last_lhs_lines)
    /\ ~Malformed(first_last_rhs_lines)
    /\ RhsBlock # <<>>

(***************************************************************************)
(* C6.  One column width is computed per hunk and pads the line numbers of *)
(* both blocks.  It is the length of the formatted line number of the      *)
(* larger of the two intervals' last values (of the only interval when one *)
(* side has none, of line number zero when both have none), and no printed *)
(* line number of the hunk formats to more characters than it.             *)
(***************************************************************************)
LargerLast ==
    IF first_last_lhs_lines = None /\ first_last_rhs_lines = None THEN 0
    ELSE IF first_last_lhs_lines = None THEN first_last_rhs_lines[1][2]
    ELSE IF first_last_rhs_lines = None THEN first_last_lhs_lines[1][2]
    ELSE IF first_last_lhs_lines[1][2] >= first_last_rhs_lines[1][2]
         THEN first_last_lhs_lines[1][2]
         ELSE first_last_rhs_lines[1][2]

C6_SharedColumnWidth ==
    Resolved =>
        /\ line_column_width = Len(format_line_num(LargerLast))
        /\ \A k \in DOMAIN out :
              (out[k].hunk = i + 1 /\ out[k].kind \in {"lhs", "rhs"}) =>
                  /\ Len(format_line_num(out[k].line[1])) <= line_column_width
                  /\ Len(out[k].num) = line_column_width

\* A one-character left line number padded to the width of a two-character
\* right line number.
C6_Witness ==
    /\ HunkPrinted
    /\ line_column_width = 2
    /\ \E e \in Range(BlockEvents("lhs", i + 1)) :
          Len(format_line_num(e.line[1])) = 1 /\ e.num = <<" ">> \o format_line_num(e.line[1])
    /\ \E e \in Range(BlockEvents("rhs", i + 1)) : Len(format_line_num(e.line[1])) = 2

(***************************************************************************)
(* C7.  The output is ordered: hunks are rendered in their given order;    *)
(* each hunk prints exactly one header first, then its left block, then    *)
(* its right block, then exactly one blank line; no line of a later hunk   *)
(* precedes the blank line of an earlier one.                              *)
(***************************************************************************)
KindRank(kind) ==
    CASE kind = "header" -> 0 [] kind = "lhs" -> 1 [] kind = "rhs" -> 2 [] OTHER -> 3

CountOf(kind, n) == Cardinality({k \in DOMAIN out : out[k].kind = kind /\ out[k].hunk = n})

C7_OutputOrdered ==
    /\ \A j, k \in DOMAIN out :
          j < k =>
              /\ out[j].hunk <= out[k].hunk
              /\ out[j].hunk = out[k].hunk => KindRank(out[j].kind) <= KindRank(out[k].kind)
    /\ \A n \in 1..Len(hunks) :
          /\ CountOf("header", n) = IF n <= i \/ (n = i + 1 /\ pc # "header") THEN 1 ELSE 0
          /\ CountOf("blank", n) = IF n <= i THEN 1 ELSE 0
    /\ \A k \in DOMAIN out : out[k].hunk \in 1..Len(hunks)
    /\ pc = "done" => i = Len(hunks)

\* Two hunks rendered, both with a left and a right block.
C7_Witness ==
    /\ pc = "done"
    /\ Len(hunks) = 2
    /\ \A n \in 1..2 : CountOf("lhs", n) > 0 /\ CountOf("rhs", n) > 0

(***************************************************************************)
(* C8.  Fallback of the boundary resolution.  Before-context wholly        *)
(* common and not empty, a the right value of its last pair, b the first   *)
(* right-present value of the hunk: the first right line is a + 1 when     *)
(* b > a, and absent when b <= a or the hunk has no right-present value.   *)
(* Empty window: absent.  Mirror image for the after-context and the last  *)
(* left line, b - 1 when a < b.  A resolved boundary lies strictly beyond  *)
(* the common value and not past the hunk's nearest value.                 *)
(***************************************************************************)
WhollyCommon(w) == \A k \in DOMAIN w : IsCommon(w[k])

C8_FallbackBoundary ==
    Resolved =>
        /\ before_lines = <<>> => first_rhs_line = None
        /\ after_lines = <<>> => last_lhs_line = None
        /\ (before_lines # <<>> /\ WhollyCommon(before_lines)) =>
              LET a   == before_lines[Len(before_lines)][2][1]
                  rhs == to_rhs_iter(hunk_lines)
              IN  /\ rhs = <<>> => first_rhs_line = None
                  /\ (rhs # <<>> /\ rhs[1] <= a) => first_rhs_line = None
                  /\ (rhs # <<>> /\ rhs[1] > a) =>
                        /\ first_rhs_line = Some(a + 1)
                        /\ a < first_rhs_line[1] /\ first_rhs_line[1] <= rhs[1]
        /\ (after_lines # <<>> /\ WhollyCommon(after_lines)) =>
              LET b   == after_lines[1][1][1]
                  lhs == to_lhs_iter(hunk_lines)
              IN  /\ lhs = <<>> => last_lhs_line = None
                  /\ (lhs # <<>> /\ lhs[Len(lhs)] >= b) => last_lhs_line = None
                  /\ (lhs # <<>> /\ lhs[Len(lhs)] < b) =>
                        /\ last_lhs_line = Some(b - 1)
                        /\ lhs[Len(lhs)] <= last_lhs_line[1] /\ last_lhs_line[1] < b

\* The resolved first right line fills a gap between the common line and
\* the hunk.
C8_Witness ==
    /\ Resolved
    /\ before_lines # <<>> /\ WhollyCommon(before_lines)
    /\ to_rhs_iter(hunk_lines) # <<>>
    /\ first_rhs_line = Some(before_lines[Len(before_lines)][2][1] + 1)
    /\ first_rhs_line[1] < to_rhs_iter(hunk_lines)[1]

(***************************************************************************)
(* C9.  As stated:  for every common pair of the before-context the left   *)
(* line is printed in the left block and the right line is not printed in  *)
(* the right block, and for every common pair of the after-context the     *)
(* right line is printed in the right block and the left line is not       *)
(* printed in the left block, whatever the shape of the window.            *)
(***************************************************************************)
EmittedLeftOnly(p) == p[1][1] \in Range(LhsBlock) /\ p[2][1] \notin Range(RhsBlock)
EmittedRightOnly(p) == p[2][1] \in Range(RhsBlock) /\ p[1][1] \notin Range(LhsBlock)

C9_Original ==
    HunkPrinted =>
        /\ \A k \in DOMAIN before_lines :
              IsCommon(before_lines[k]) => EmittedLeftOnly(before_lines[k])
        /\ \A k \in DOMAIN after_lines :
              IsCommon(after_lines[k]) => EmittedRightOnly(after_lines[k])

(***************************************************************************)
(* C9, amended.  The common pairs that open the before-context (those      *)
(* before its first one-sided pair) are printed in the left block and not  *)
(* in the right block, and the common pairs that close the after-context   *)
(* (those after its last one-sided pair) are printed in the right block    *)
(* and not in the left block.  A common pair that lies between a one-sided *)
(* pair of its window and the hunk may be printed in both blocks.          *)
(***************************************************************************)
C9_OuterCommonOnce ==
    HunkPrinted =>
        /\ \A k \in 1..TakeWhileCommonCount(before_lines) :
              EmittedLeftOnly(before_lines[k])
        /\ \A k \in (Len(after_lines) - RevTakeWhileCommonCount(after_lines) + 1)
                       ..Len(after_lines) :
              EmittedRightOnly(after_lines[k])

\* A before-context that mixes an opening common pair with a one-sided pair,
\* and an after-context of common pairs, with both blocks printed.
C9_Witness ==
    /\ HunkPrinted
    /\ Len(before_lines) = 2
    /\ TakeWhileCommonCount(before_lines) = 1
    /\ after_lines # <<>> /\ WhollyCommon(after_lines)
    /\ first_rhs_line # None
    /\ LhsBlock # <<>> /\ RhsBlock # <<>>

(***************************************************************************)
(* C10.  Every line number printed for a side of a hunk, hence every index *)
(* into that side's table of source lines, lies between the smallest and   *)
(* the largest line number present on that side among the before-context,  *)
(* hunk and after-context pairs; the resolved boundary lines do too.       *)
(***************************************************************************)
SideLhs == Range(to_lhs_iter(before_lines \o hunk_lines \o after_lines))
SideRhs == Range(to_rhs_iter(before_lines \o hunk_lines \o after_lines))

Within(l, S) == S # {} /\ MinOf(S) <= l /\ l <= MaxOf(S)

C10_LookupsInRange ==
    Resolved =>
        /\ \A l \in Range(LhsBlock) : Within(l, SideLhs)
        /\ \A l \in Range(RhsBlock) : Within(l, SideRhs)
        /\ first_rhs_line # None => Within(first_rhs_line[1], SideRhs)
        /\ last_lhs_line # None => Within(last_lhs_line[1], SideLhs)
        /\ (pc = "lhs" /\ ENABLED LhsLine) => Within(line, SideLhs)
        /\ (pc = "rhs" /\ ENABLED RhsLine) => Within(line, SideRhs)

\* Both boundary lines were resolved by stepping from a common line, and the
\* blocks reach the smallest left and the largest right line number.
C10_Witness ==
    /\ HunkPrinted
    /\ before_lines # <<>> /\ WhollyCommon(before_lines)
    /\ after_lines # <<>> /\ WhollyCommon(after_lines)
    /\ first_rhs_line # None /\ last_lhs_line # None
    /\ MinLine \in Range(LhsBlock)
    /\ MaxLine \in Range(RhsBlock)

(***************************************************************************)
(* C3.  As stated:  when two hunks are separated by exactly one common     *)
(* line and context lines are configured, that line is printed exactly     *)
(* once across the outputs of the two hunks.  (The common line c is the    *)
(* pair (c, c): it is shown by a left event or by a right event.)          *)
(***************************************************************************)
ShownCount(c) ==
    Cardinality({k \in DOMAIN out :
                    out[k].kind \in {"lhs", "rhs"} /\ out[k].line = Some(c)})

====
